---- MODULE Spec2Model ----
(***************************************************************************)
(* Attendance report generator: the three drivers of the repository        *)
(*   cli    - attendance_report_generator.py            (DOCX to a folder) *)
(*   direct - attendance_report_generator_DIRECT_PDF_FINAL.py (PDF, grouped)*)
(*   app    - attendance_app.py generate_reports + main  (archive download) *)
(* as one state machine.  A text is a sequence of tokens (words and single *)
(* whitespace characters), so that strip() and the f-strings are computed; *)
(* an attendance fraction is an exact rational num/den, NaN being 0/0.     *)
(***************************************************************************)
EXTENDS Integers, Sequences, FiniteSets, TLC

\* ------------------------------------------------------------------ bounds
MaxRows == 3
MaxOver == 60

VARIABLES
    variant,        \* which driver runs: "cli", "direct" or "app"
    output_format,  \* "DOCX" or "PDF"
    group_by,       \* outputs are prefixed by the group label
    header,         \* the sheet's header row: field -> raw label (<<>>: no such column)
    table,          \* the sheet's data rows
    template,       \* the template document
    excel_file,     \* the spreadsheet has been uploaded (the scripts read a path: TRUE)
    template_file,  \* the template has been uploaded (the scripts read a path: TRUE)
    soffice,        \* the converter's executable exists at its fixed path
    pc,             \* "start", "loop", "converting", "done", "aborted", "refused"
    columns,        \* df.columns: field -> current label
    df,             \* the cleaned frame: <<[idx, row]>>, idx the pandas index label
    i,              \* position of the loop in df (1-based)
    loc,            \* the loop body's local variables of the last iteration
    conv,           \* the external converter: "idle", "running", "exit0", "exit0_nofile", "exit_nonzero"
    cur,            \* the record in conversion: temp paths, target path, document
    outDir,         \* files of the output folder: set of [path, doc, src]
    zip_file,       \* the archive being written: sequence of [path, doc, src]
    temps,          \* temporary files and directories that exist
    log,            \* what the driver has printed or shown
    fault,          \* the exception that ended the run ("none" while there is none)
    download        \* the archive handed to the user (<<>> until offered), with offered flag

vars == <<variant, output_format, group_by, header, table, template, excel_file,
          template_file, soffice, pc, columns,
          df, i, loc, conv, cur, outDir, zip_file, temps, log, fault, download>>

inputs == <<variant, output_format, group_by, header, table, template, excel_file,
            template_file, soffice>>

\* ------------------------------------------------------------------- texts
WS == {" ", "nbsp"}

RECURSIVE LStrip(_)
LStrip(s) == IF s # <<>> /\ Head(s) \in WS THEN LStrip(Tail(s)) ELSE s

RECURSIVE RStrip(_)
RStrip(s) == IF s # <<>> /\ s[Len(s)] \in WS THEN RStrip(SubSeq(s, 1, Len(s) - 1)) ELSE s

\* faulty variant: at most one whitespace character is removed on each side
Strip_OncePerSide(s) ==
    LET a == IF s # <<>> /\ Head(s) \in WS THEN Tail(s) ELSE s
    IN  IF a # <<>> /\ a[Len(a)] \in WS THEN SubSeq(a, 1, Len(a) - 1) ELSE a

\* str.strip(): leading and trailing whitespace (the non-breaking space included)
Strip(s) == RStrip(LStrip(s))

DigitChar == <<"0", "1", "2", "3", "4", "5", "6", "7", "8", "9">>

RECURSIVE IntToStr(_)
IntToStr(n) == IF n < 10 THEN <<DigitChar[n + 1]>>
               ELSE IntToStr(n \div 10) \o <<DigitChar[(n % 10) + 1]>>

\* a cell of the sheet: a string, or NaN for an empty cell
StrV(s) == [nan |-> FALSE, s |-> s]
NaNV == [nan |-> TRUE, s |-> <<>>]

\* Series.str.strip(): NaN stays NaN
StripV(v) == IF v.nan THEN v ELSE StrV(Strip(v.s))

\* f"{value}"
Fmt(v) == IF v.nan THEN <<"nan">> ELSE v.s

\* a numeric identifier cell: whole.frac (frac in tenths), or NaN
IdV(w, f) == [nan |-> FALSE, whole |-> w, frac |-> f]
NaNId == [nan |-> TRUE, whole |-> 0, frac |-> 0]

\* an attendance fraction num/den; NaN is 0/0
Frac(n, d) == [num |-> n, den |-> d]
NaNFrac == Frac(0, 0)

\* ------------------------------------------------------------ the sheet
Fields == {"Name", "Surname", "BNU_ID", "Campus", "LIVE", "Group_Ref"}

LName == <<"Name">>
LNameSp == <<"Name", " ">>
LSurname == <<"Surname">>
LId == <<"BNU ID">>
LCampus == <<"Campus">>
LLive == <<"LIVE">>
LGroup == <<"Group Ref">>

\* df[label] raises KeyError unless some column carries exactly that label
HasCol(cols, label) == \E f \in Fields : cols[f] = label
FieldOf(cols, label) == CHOOSE f \in Fields : cols[f] = label
Get(cols, row, label) == row[FieldOf(cols, label)]

\* df.columns = df.columns.str.strip()
StripColumns(cols) == [f \in Fields |-> Strip(cols[f])]

\* df.rename(columns={'Name ': 'Name'})
RenameColumn(cols, old, new) == [f \in Fields |-> IF cols[f] = old THEN new ELSE cols[f]]

\* pd.read_excel(..., skiprows=1): the rows under the header, indexed from 0
Frame(rows) == [k \in 1..Len(rows) |-> [idx |-> k - 1, row |-> rows[k]]]

\* faulty variant: the dropna is forgotten
DropNA_KeepAll(frame, cols, label) == frame

\* df.dropna(subset=[label]): the rows whose cell is not NaN, order and index kept
DropNA(frame, cols, label) ==
    SelectSeq(frame, LAMBDA e : ~ e.row[FieldOf(cols, label)].nan)

\* df[label] = df[label].str.strip()
StripColumnValues(frame, cols, label) ==
    [k \in 1..Len(frame) |->
        [frame[k] EXCEPT !.row[FieldOf(cols, label)] = StripV(@)]]

\* the columns each driver reads before its loop, in the order it reads them
PreLoopLabels(v, g) ==
    CASE v = "cli" -> <<LId, LNameSp, LSurname>>
      [] v = "direct" -> <<LId, LName, LSurname, LGroup>>
      [] OTHER -> <<LId, LName, LSurname>> \o (IF g THEN <<LGroup>> ELSE <<>>)

\* the columns the loop body reads for a row before it opens the template
LoopLabels(v, g) ==
    <<LName, LSurname, LId, LCampus, LLive>>
        \o (IF v = "direct" \/ (v = "app" /\ g) THEN <<LGroup>> ELSE <<>>)

AllPresent(cols, labels) == \A k \in 1..Len(labels) : HasCol(cols, labels[k])

\* ------------------------------------------------------- classification
\* percent >= k, for percent = num/den; every comparison with NaN is false
PercentGE(p, k) == p.den > 0 /\ p.num >= k * p.den

\* faulty variant: the first threshold is exclusive
AttendanceCategory_StrictExcellent(attendance) ==
    LET attendance_percent == Frac(attendance.num * 100, attendance.den)
    IN  IF attendance_percent.den > 0
              /\ attendance_percent.num > 80 * attendance_percent.den
        THEN "Excellent attendance"
        ELSE IF PercentGE(attendance_percent, 70) THEN "Very good attendance"
        ELSE IF PercentGE(attendance_percent, 60) THEN "Good attendance"
        ELSE "Attendance could be better"

\* attendance_percent = attendance * 100, then the if/elif chain
AttendanceCategory(attendance) ==
    LET attendance_percent == Frac(attendance.num * 100, attendance.den)
    IN  IF PercentGE(attendance_percent, 80) THEN "Excellent attendance"
        ELSE IF PercentGE(attendance_percent, 70) THEN "Very good attendance"
        ELSE IF PercentGE(attendance_percent, 60) THEN "Good attendance"
        ELSE "Attendance could be better"

\* the same chain as the DOCX script writes it
CliCategory(attendance) ==
    LET attendance_percent == Frac(attendance.num * 100, attendance.den)
    IN  IF PercentGE(attendance_percent, 80) THEN "Excellent attendance"
        ELSE IF PercentGE(attendance_percent, 70) THEN "Very good attendance"
        ELSE IF PercentGE(attendance_percent, 60) THEN "Good attendance"
        ELSE "Attendance could be better"

\* faulty variant: the direct script compares the fraction, not the percentage
DirectCategory_Fraction(attendance) ==
    IF PercentGE(attendance, 80) THEN "Excellent attendance"
    ELSE IF PercentGE(attendance, 70) THEN "Very good attendance"
    ELSE IF PercentGE(attendance, 60) THEN "Good attendance"
    ELSE "Attendance could be better"

\* the same chain as the direct script writes it
DirectCategory(attendance) ==
    LET attendance_percent == Frac(attendance.num * 100, attendance.den)
    IN  IF PercentGE(attendance_percent, 80) THEN "Excellent attendance"
        ELSE IF PercentGE(attendance_percent, 70) THEN "Very good attendance"
        ELSE IF PercentGE(attendance_percent, 60) THEN "Good attendance"
        ELSE "Attendance could be better"

\* the category as driver v computes it
CategoryOf(v, attendance) ==
    CASE v = "cli" -> CliCategory(attendance)
      [] v = "direct" -> DirectCategory(attendance)
      [] OTHER -> AttendanceCategory(attendance)

\* f"{row['Name']} {row['Surname']}" as each driver writes it
CliStudentName(name, surname) == Fmt(name) \o <<" ">> \o Fmt(surname)
DirectStudentName(name, surname) == Fmt(name) \o <<" ">> \o Fmt(surname)
AppStudentName(name, surname) == Fmt(name) \o <<" ">> \o Fmt(surname)

StudentNameOf(v, name, surname) ==
    CASE v = "cli" -> CliStudentName(name, surname)
      [] v = "direct" -> DirectStudentName(name, surname)
      [] OTHER -> AppStudentName(name, surname)

\* ------------------------------------------------------------ documents
\* a document: its tables, each the sequence of its rows' value cells
\* (column 1); row r of table t is doc[t + 1][r + 1]
Yes == <<"Yes">>
Empty == <<>>

HasCell(doc, t, r) == t + 1 <= Len(doc) /\ r + 1 <= Len(doc[t + 1])
SetCell(doc, t, r, text) == [doc EXCEPT ![t + 1][r + 1] = text]

\* faulty variant: name and identifier written to each other's row
FillIdentity_Swapped(doc, student_name, bnu_id, campus) ==
    SetCell(SetCell(SetCell(doc, 0, 5, student_name), 0, 4, bnu_id), 0, 6, campus)

\* table.rows[4..6].cells[1].text = student_name, bnu_id, campus
FillIdentity(doc, student_name, bnu_id, campus) ==
    SetCell(SetCell(SetCell(doc, 0, 4, student_name), 0, 5, bnu_id), 0, 6, campus)

\* faulty variant: the heading row of the second table is cleared as well
ClearCheckboxes_FromRow0(doc) ==
    SetCell(SetCell(SetCell(SetCell(SetCell(doc, 1, 0, Empty), 1, 1, Empty),
                            1, 2, Empty), 1, 3, Empty), 1, 4, Empty)

\* the four assignments of "" to rows 1..4 of the second table
ClearCheckboxes(doc) ==
    SetCell(SetCell(SetCell(SetCell(doc, 1, 1, Empty), 1, 2, Empty), 1, 3, Empty), 1, 4, Empty)

\* the if/elif chain that writes "Yes" into one row
MarkCheckbox(doc, attendance_category) ==
    IF attendance_category = "Excellent attendance" THEN SetCell(doc, 1, 1, Yes)
    ELSE IF attendance_category = "Very good attendance" THEN SetCell(doc, 1, 2, Yes)
    ELSE IF attendance_category = "Good attendance" THEN SetCell(doc, 1, 3, Yes)
    ELSE SetCell(doc, 1, 4, Yes)

\* faulty variant: the four cells are not cleared first
FillCheckbox_NoClear(doc, attendance_category) == MarkCheckbox(doc, attendance_category)

FillCheckbox(doc, attendance_category) ==
    MarkCheckbox(ClearCheckboxes(doc), attendance_category)

\* the DOCX script's fill: identity rows, the four clears, the one "Yes"
CliFill(doc, student_name, bnu_id, campus, attendance_category) ==
    LET d1 == SetCell(SetCell(SetCell(doc, 0, 4, student_name), 0, 5, bnu_id), 0, 6, campus)
        d2 == SetCell(SetCell(SetCell(SetCell(d1, 1, 1, Empty), 1, 2, Empty),
                              1, 3, Empty), 1, 4, Empty)
    IN  IF attendance_category = "Excellent attendance" THEN SetCell(d2, 1, 1, Yes)
        ELSE IF attendance_category = "Very good attendance" THEN SetCell(d2, 1, 2, Yes)
        ELSE IF attendance_category = "Good attendance" THEN SetCell(d2, 1, 3, Yes)
        ELSE SetCell(d2, 1, 4, Yes)

\* the direct script's fill
DirectFill(doc, student_name, bnu_id, campus, attendance_category) ==
    LET d1 == SetCell(SetCell(SetCell(doc, 0, 4, student_name), 0, 5, bnu_id), 0, 6, campus)
        d2 == SetCell(SetCell(SetCell(SetCell(d1, 1, 1, Empty), 1, 2, Empty),
                              1, 3, Empty), 1, 4, Empty)
    IN  IF attendance_category = "Excellent attendance" THEN SetCell(d2, 1, 1, Yes)
        ELSE IF attendance_category = "Very good attendance" THEN SetCell(d2, 1, 2, Yes)
        ELSE IF attendance_category = "Good attendance" THEN SetCell(d2, 1, 3, Yes)
        ELSE SetCell(d2, 1, 4, Yes)

\* the filled document as driver v builds it
FillOf(v, doc, student_name, bnu_id, campus, attendance_category) ==
    CASE v = "cli" -> CliFill(doc, student_name, bnu_id, campus, attendance_category)
      [] v = "direct" -> DirectFill(doc, student_name, bnu_id, campus, attendance_category)
      [] OTHER -> FillCheckbox(FillIdentity(doc, student_name, bnu_id, campus),
                               attendance_category)

\* the rows the fill indexes: rows[4..6] of tables[0], rows[1..4] of tables[1]
ShapeOK(doc) == HasCell(doc, 0, 6) /\ HasCell(doc, 1, 4)

\* --------------------------------------------------------------- naming
\* faulty variant: given name before surname
BaseName_NameFirst(bnu_id, surname, name) ==
    bnu_id \o <<"_">> \o Fmt(name) \o <<"_">> \o Fmt(surname) \o <<"_Attendance_Report">>

\* f"{bnu_id}_{row['Surname']}_{row['Name']}_Attendance_Report"
BaseName(bnu_id, surname, name) ==
    bnu_id \o <<"_">> \o Fmt(surname) \o <<"_">> \o Fmt(name) \o <<"_Attendance_Report">>

\* f"{bnu_id}_{row['Surname']}_{row['Name']}_Attendance_Report.docx", less the extension
CliBaseName(bnu_id, surname, name) ==
    bnu_id \o <<"_">> \o Fmt(surname) \o <<"_">> \o Fmt(name) \o <<"_Attendance_Report">>

\* f"{bnu_id}_{row['Surname']}_{row['Name']}_Attendance_Report.pdf", less the extension
DirectBaseName(bnu_id, surname, name) ==
    bnu_id \o <<"_">> \o Fmt(surname) \o <<"_">> \o Fmt(name) \o <<"_Attendance_Report">>

\* the base name as driver v builds it
BaseNameOf(v, bnu_id, surname, name) ==
    CASE v = "cli" -> CliBaseName(bnu_id, surname, name)
      [] v = "direct" -> DirectBaseName(bnu_id, surname, name)
      [] OTHER -> BaseName(bnu_id, surname, name)

\* the path of a record's output: f"{student_group}/..." when grouped
OutputPath(grouped, group, base, ext) ==
    (IF grouped THEN Fmt(group) \o <<"/">> ELSE <<>>) \o base \o <<ext>>

\* tempfile names are unique per call: the n-th record gets its own
TempDocx(n) == <<"tmp">> \o IntToStr(n) \o <<".docx">>
TempDir(n) == <<"tmpdir">> \o IntToStr(n)
\* os.path.splitext(os.path.basename(temp_docx))[0] + '.pdf'
TempPdfName(n) == <<"tmp">> \o IntToStr(n) \o <<".pdf">>

\* ------------------------------------------------------------- the files
File(path, doc, src) == [path |-> path, doc |-> doc, src |-> src]

\* doc.save(path) / os.rename(..., path): a file of that path is replaced
WriteFile(dir, f) == {g \in dir : g.path # f.path} \cup {f}

\* faulty variant: a new entry goes to the front
ZipWrite_Prepend(z, f) == <<f>> \o z

\* zip_file.write(file, arcname): entries are appended in call order
ZipWrite(z, f) == Append(z, f)

Msg(kind, n, total) == [kind |-> kind, n |-> n, total |-> total]

\* --------------------------------------------------------------- inputs
Row(id, name, surname, campus, live, group) ==
    [Name |-> name, Surname |-> surname, BNU_ID |-> id, Campus |-> campus,
     LIVE |-> live, Group_Ref |-> group]

\* the author's sheet: 'Name ' with a trailing space, '\xa0Group Ref'
AuthorHeader ==
    [f \in Fields |->
        CASE f = "Name" -> LNameSp
          [] f = "Surname" -> LSurname
          [] f = "BNU_ID" -> LId
          [] f = "Campus" -> LCampus
          [] f = "LIVE" -> LLive
          [] OTHER -> <<"nbsp", "Group Ref">>]

\* the canonical label of each field
Canonical ==
    [f \in Fields |->
        CASE f = "Name" -> LName
          [] f = "Surname" -> LSurname
          [] f = "BNU_ID" -> LId
          [] f = "Campus" -> LCampus
          [] f = "LIVE" -> LLive
          [] OTHER -> LGroup]

\* whitespace a spreadsheet editor leaves around a label
Pads == {<<>>, <<" ">>, <<"nbsp">>, <<" ", "nbsp">>}

\* a sheet whose labels all carry the padding lead in front and trail behind
PaddedHeader(lead, trail) == [f \in Fields |-> lead \o Canonical[f] \o trail]

\* a sheet that lacks one column
HeaderWithout(g) == [f \in Fields |-> IF f = g THEN <<>> ELSE AuthorHeader[f]]

RowSet ==
    { Row(IdV(101, 0), StrV(<<" ", "Ann", " ">>), StrV(<<"Lee">>), StrV(<<"North">>),
          Frac(85, 100), StrV(<<"G1">>)),
      Row(IdV(102, 0), StrV(<<"Bo">>), StrV(<<"Ray", "nbsp">>), StrV(<<"South">>),
          Frac(65, 100), StrV(<<"G2">>)),
      Row(IdV(7, 5), StrV(<<"Cy">>), StrV(<<"Orr">>), StrV(<<"North">>),
          Frac(79999, 100000), StrV(<<"G1">>)),
      Row(IdV(105, 0), StrV(<<"Ed">>), StrV(<<"Kay">>), StrV(<<"South">>),
          Frac(1, 2), StrV(<<"G2">>)),
      \* a row without identifier (a totals line)
      Row(NaNId, StrV(<<"Total">>), NaNV, NaNV, NaNFrac, NaNV),
      \* a row whose campus cell is empty
      Row(IdV(104, 0), StrV(<<"Di">>), StrV(<<"Poe">>), NaNV, Frac(55, 100), StrV(<<"G2">>)) }

\* one record whose fraction runs over a grid of thousandths, beyond [0, 1] both ways
GridRow(n) ==
    Row(IdV(101, 0), StrV(<<"Ann">>), StrV(<<"Lee">>), StrV(<<"North">>),
        Frac(n, 1000), StrV(<<"G1">>))

\* sheets of up to MaxRows rows, no row twice (an identifier names one student)
Tables(S) ==
    { t \in UNION { [1..n -> S] : n \in 0..MaxRows } :
        \A a, b \in 1..Len(t) : t[a] = t[b] => a = b }

TemplateClean == << [r \in 1..7 |-> Empty], [r \in 1..5 |-> Empty] >>
\* a template saved with leftovers in its value cells
TemplateDirty ==
    << [r \in 1..7 |-> IF r = 5 THEN <<"Old", " ", "Name">> ELSE Empty],
       << <<"Tick">>, Yes, <<"X">>, Yes, Yes >> >>
\* a template whose second table has rows 0..2 only
TemplateShort == << [r \in 1..7 |-> Empty], [r \in 1..3 |-> Empty] >>
\* a template with a single table
TemplateOneTable == << [r \in 1..7 |-> Empty] >>
\* a template whose first table has rows 0..5 only
TemplateShortFirst == << [r \in 1..6 |-> Empty], [r \in 1..5 |-> Empty] >>

Configs ==
    { [variant |-> "cli", output_format |-> "DOCX", group_by |-> FALSE],
      [variant |-> "direct", output_format |-> "PDF", group_by |-> TRUE] }
    \cup { [variant |-> "app", output_format |-> o, group_by |-> g] :
             o \in {"DOCX", "PDF"}, g \in BOOLEAN }

NoLocals ==
    [idx |-> -1, student_name |-> <<>>, bnu_id |-> <<>>, campus |-> NaNV,
     attendance |-> NaNFrac, attendance_category |-> "", student_group |-> NaNV]
NoCur == [doc |-> <<>>, path |-> <<>>, src |-> -1, n |-> 0]

Start ==
    /\ pc = "start"
    /\ columns = header
    /\ df = <<>>
    /\ i = 0
    /\ loc = NoLocals
    /\ conv = "idle"
    /\ cur = NoCur
    /\ outDir = {}
    /\ zip_file = <<>>
    /\ temps = {}
    /\ log = <<>>
    /\ fault = "none"
    /\ download = [offered |-> FALSE, entries |-> <<>>]

\* a driver and its options, with both files given and the converter installed
SetConfig(c) ==
    /\ variant = c.variant
    /\ output_format = c.output_format
    /\ group_by = c.group_by
    /\ excel_file = TRUE
    /\ template_file = TRUE
    /\ soffice = TRUE

\* batches of up to MaxRows rows, on the author's header
InitBatch ==
    /\ \E c \in Configs : SetConfig(c)
    /\ header = AuthorHeader
    /\ table \in Tables(RowSet)
    /\ template \in {TemplateClean, TemplateDirty, TemplateShort, TemplateOneTable,
                     TemplateShortFirst}
    /\ Start

\* one record per fraction of the grid
InitGrid ==
    /\ \E c \in Configs : SetConfig(c)
    /\ header = AuthorHeader
    /\ \E n \in (0 - MaxOver)..(1000 + MaxOver) : table = <<GridRow(n)>>
    /\ template = TemplateDirty
    /\ Start

\* sheets that lack a column, or carry the plain or padded labels
InitHeader ==
    /\ \E c \in Configs : SetConfig(c)
    /\ header \in {HeaderWithout(g) : g \in Fields}
                    \cup {PaddedHeader(lead, trail) : lead \in Pads, trail \in Pads}
    /\ table \in Tables({r \in RowSet : r.LIVE \in {Frac(85, 100), NaNFrac}})
    /\ template = TemplateClean
    /\ Start

\* one record on every template whose four category cells hold "", "Yes" or other text
CellTexts == {Empty, Yes, <<"X">>}
TemplateWith(c) == << [r \in 1..7 |-> Empty], <<Empty, c[1], c[2], c[3], c[4]>> >>

InitTemplate ==
    /\ \E c \in Configs : SetConfig(c)
    /\ header = AuthorHeader
    /\ \E r \in {q \in RowSet : ~ q.BNU_ID.nan /\ ~ q.Campus.nan} : table = <<r>>
    /\ \E c \in [1..4 -> CellTexts] : template = TemplateWith(c)
    /\ Start

\* the app with any of its uploads missing, any driver with or without the
\* converter installed
InitGuard ==
    /\ \E c \in Configs :
          /\ variant = c.variant
          /\ output_format = c.output_format
          /\ group_by = c.group_by
          /\ excel_file \in (IF c.variant = "app" THEN BOOLEAN ELSE {TRUE})
          /\ template_file \in (IF c.variant = "app" THEN BOOLEAN ELSE {TRUE})
    /\ soffice \in BOOLEAN
    /\ header = AuthorHeader
    /\ table \in Tables({r \in RowSet : r.LIVE \in {Frac(85, 100), Frac(65, 100)}})
    /\ template = TemplateClean
    /\ Start

Init == InitBatch \/ InitGrid \/ InitHeader \/ InitTemplate \/ InitGuard

\* ------------------------------------------------------- the loop body
Grouped == variant = "direct" \/ (variant = "app" /\ group_by)

\* the local variables the body computes for entry e of df
Locals(e) ==
    LET name == Get(columns, e.row, LName)
        surname == Get(columns, e.row, LSurname)
        attendance == Get(columns, e.row, LLive)
    IN  [idx |-> e.idx,
         student_name |-> StudentNameOf(variant, name, surname),
         \* str(int(row['BNU ID'])): int() drops the fractional part
         bnu_id |-> IntToStr(Get(columns, e.row, LId).whole),
         campus |-> Get(columns, e.row, LCampus),
         attendance |-> attendance,
         attendance_category |-> CategoryOf(variant, attendance),
         student_group |-> IF Grouped THEN Get(columns, e.row, LGroup) ELSE NaNV]

\* faulty variant: a template without the indexed rows raises nothing, the
\* assignments to the missing rows are skipped
RecordFault_ShapeIgnored(e) ==
    IF ~ AllPresent(columns, LoopLabels(variant, group_by)) THEN "KeyError"
    ELSE IF Get(columns, e.row, LCampus).nan THEN "TypeError"
    ELSE "none"

\* the exception the body raises for entry e before it saves anything:
\* KeyError for a column it cannot find, IndexError for a template without the
\* rows it indexes, TypeError for a cell text that is NaN
RecordFault(e) ==
    IF ~ AllPresent(columns, LoopLabels(variant, group_by)) THEN "KeyError"
    ELSE IF ~ HasCell(template, 0, 6) THEN "IndexError"
    ELSE IF Get(columns, e.row, LCampus).nan THEN "TypeError"
    ELSE IF ~ HasCell(template, 1, 4) THEN "IndexError"
    ELSE "none"

\* Document(template), then the two fills
FilledDoc(l) ==
    FillOf(variant, template, l.student_name, l.bnu_id, l.campus.s, l.attendance_category)

TargetPath(e, ext) ==
    LET l == Locals(e)
    IN  OutputPath(Grouped, l.student_group,
                   BaseNameOf(variant, l.bnu_id, Get(columns, e.row, LSurname),
                              Get(columns, e.row, LName)), ext)

\* the scripts print a progress line after classifying; the app prints none
Progress(e) ==
    IF variant = "app" THEN <<>> ELSE <<Msg("progress", e.idx + 1, Len(df))>>

\* the app's outer except shows the error; a script dies with its traceback
ErrorShown == IF variant = "app" THEN <<Msg("error", 0, 0)>> ELSE <<>>

\* faulty variant: one upload is enough
UploadsPresent_Either == variant = "app" => (excel_file \/ template_file)

\* if excel_file and template_file: only the app takes uploads
UploadsPresent == variant = "app" => (excel_file /\ template_file)

\* check_libreoffice() / os.path.exists(LIBREOFFICE_PATH), asked by the app
\* for PDF output and by the direct script; the DOCX script never asks
ConverterAvailable ==
    (variant = "direct" \/ (variant = "app" /\ output_format = "PDF")) => soffice

\* ------------------------------------------------------------- actions
\* the run up to the loop: the checks that let it start (the app's uploads,
\* the converter), then read_excel, column cleaning, dropna, name cleaning,
\* group listing
ReadAndClean ==
    /\ pc = "start"
    /\ IF ~ UploadsPresent
       THEN /\ pc' = "refused"
            /\ log' = Append(log, Msg("warning", 0, 0))
            /\ UNCHANGED <<columns, df, i, fault>>
       ELSE IF ~ ConverterAvailable
       THEN /\ pc' = "refused"
            /\ log' = Append(log, Msg("error", 0, 0))
            /\ UNCHANGED <<columns, df, i, fault>>
       ELSE
       LET c0 == IF variant = "cli" THEN header ELSE StripColumns(header)
           nameLabel == IF variant = "cli" THEN LNameSp ELSE LName
           needsGroup == variant = "direct" \/ (variant = "app" /\ group_by)
           cleaned == StripColumnValues(
                          StripColumnValues(DropNA(Frame(table), c0, LId), c0, nameLabel),
                          c0, LSurname)
       IN  IF ~ AllPresent(c0, PreLoopLabels(variant, FALSE))
           THEN /\ pc' = "aborted"
                /\ fault' = "KeyError"
                /\ log' = log \o ErrorShown
                /\ UNCHANGED <<columns, df, i>>
           ELSE IF needsGroup /\ ~ HasCol(c0, LGroup)
           THEN /\ pc' = "aborted"
                /\ fault' = "KeyError"
                /\ log' = Append(log, Msg("loaded", Len(cleaned), Len(cleaned))) \o ErrorShown
                /\ UNCHANGED <<columns, df, i>>
           ELSE /\ columns' = (IF variant = "cli" THEN RenameColumn(c0, LNameSp, LName) ELSE c0)
                /\ df' = cleaned
                /\ log' = Append(log, Msg("loaded", Len(cleaned), Len(cleaned)))
                /\ pc' = "loop"
                /\ i' = 1
                /\ fault' = fault
    /\ UNCHANGED <<inputs, loc, conv, cur, outDir, zip_file, temps, download>>

\* one iteration that saves a DOCX: to the folder (cli) or, through a
\* temporary file that is unlinked again, into the archive (app)
ProcessRecord ==
    /\ pc = "loop"
    /\ i <= Len(df)
    /\ output_format = "DOCX"
    /\ LET e == df[i]
           f == RecordFault(e)
           out == File(TargetPath(e, ".docx"), FilledDoc(Locals(e)), e.idx)
       IN  IF f = "KeyError"
           THEN /\ pc' = "aborted"
                /\ fault' = f
                /\ log' = log \o ErrorShown
                /\ UNCHANGED <<loc, i, outDir, zip_file, temps>>
           ELSE IF f # "none"
           THEN /\ pc' = "aborted"
                /\ fault' = f
                /\ loc' = Locals(e)
                /\ log' = log \o Progress(e) \o ErrorShown
                /\ UNCHANGED <<i, outDir, zip_file, temps>>
           ELSE /\ loc' = Locals(e)
                /\ log' = log \o Progress(e)
                /\ outDir' = (IF variant = "cli" THEN WriteFile(outDir, out) ELSE outDir)
                /\ zip_file' = (IF variant = "app" THEN ZipWrite(zip_file, out) ELSE zip_file)
                /\ temps' = (IF variant = "app"
                             THEN (temps \cup {TempDocx(i)}) \ {TempDocx(i)} ELSE temps)
                /\ i' = i + 1
                /\ UNCHANGED <<pc, fault>>
    /\ UNCHANGED <<inputs, columns, df, conv, cur, download>>

\* one iteration up to the call of the converter: fill, save the temporary
\* DOCX (and, in the app, make the output directory), start soffice
StartConversion ==
    /\ pc = "loop"
    /\ i <= Len(df)
    /\ output_format = "PDF"
    /\ LET e == df[i]
           f == RecordFault(e)
       IN  IF f = "KeyError"
           THEN /\ pc' = "aborted"
                /\ fault' = f
                /\ log' = log \o ErrorShown
                /\ UNCHANGED <<loc, cur, conv, temps>>
           ELSE IF f # "none"
           THEN /\ pc' = "aborted"
                /\ fault' = f
                /\ loc' = Locals(e)
                /\ log' = log \o Progress(e) \o ErrorShown
                /\ UNCHANGED <<cur, conv, temps>>
           ELSE /\ loc' = Locals(e)
                /\ log' = log \o Progress(e)
                /\ cur' = [doc |-> FilledDoc(Locals(e)), path |-> TargetPath(e, ".pdf"),
                           src |-> e.idx, n |-> i]
                /\ temps' = temps \cup {TempDocx(i)}
                                  \cup (IF variant = "app" THEN {TempDir(i)} ELSE {})
                /\ conv' = "running"
                /\ pc' = "converting"
                /\ fault' = fault
    /\ UNCHANGED <<inputs, columns, df, i, outDir, zip_file, download>>

\* where soffice writes <input-basename>.pdf: --outdir is the group folder
\* (direct) or the temporary directory (app)
ConvertedPath ==
    IF variant = "direct"
    THEN Fmt(loc.student_group) \o <<"/">> \o TempPdfName(cur.n)
    ELSE TempDir(cur.n) \o <<"/">> \o TempPdfName(cur.n)

\* the external converter ends: exit 0 with the PDF written, exit 0 without
\* it, or a non-zero exit.  Nothing makes it end.
ConverterExits ==
    /\ pc = "converting"
    /\ conv = "running"
    /\ \E o \in {"exit0", "exit0_nofile", "exit_nonzero"} :
        /\ conv' = o
        /\ outDir' = (IF o = "exit0" /\ variant = "direct"
                      THEN WriteFile(outDir, File(ConvertedPath, cur.doc, cur.src))
                      ELSE outDir)
        /\ temps' = (IF o = "exit0" /\ variant = "app"
                     THEN temps \cup {ConvertedPath} ELSE temps)
    /\ UNCHANGED <<inputs, pc, columns, df, i, loc, cur, zip_file, log, fault, download>>

\* the rest of the iteration once subprocess.run(check=True) has returned or raised
FinishConversion ==
    /\ pc = "converting"
    /\ conv # "running"
    /\ IF variant = "direct"
       THEN /\ temps' = temps \ {TempDocx(cur.n)}
            /\ IF conv = "exit_nonzero"
               THEN /\ log' = Append(log, Msg("conversion_error", loc.idx + 1, Len(df)))
                    /\ outDir' = outDir
               ELSE /\ log' = Append(log, Msg("saved", loc.idx + 1, Len(df)))
                    /\ outDir' =
                         (IF \E g \in outDir : g.path = ConvertedPath
                          THEN WriteFile({g \in outDir : g.path # ConvertedPath},
                                         File(cur.path, cur.doc, cur.src))
                          ELSE outDir)
            /\ pc' = "loop"
            /\ i' = i + 1
            /\ UNCHANGED <<zip_file, fault>>
       ELSE IF conv = "exit_nonzero"
            THEN \* CalledProcessError leaves generate_reports: nothing is cleaned up
                 /\ pc' = "aborted"
                 /\ fault' = "CalledProcessError"
                 /\ log' = log \o ErrorShown
                 /\ UNCHANGED <<i, outDir, zip_file, temps>>
            ELSE /\ zip_file' = (IF ConvertedPath \in temps
                                 THEN ZipWrite(zip_file, File(cur.path, cur.doc, cur.src))
                                 ELSE zip_file)
                 /\ temps' = temps \ {ConvertedPath, TempDocx(cur.n), TempDir(cur.n)}
                 /\ pc' = "loop"
                 /\ i' = i + 1
                 /\ UNCHANGED <<outDir, log, fault>>
    /\ conv' = "idle"
    /\ UNCHANGED <<inputs, columns, df, loc, cur, download>>

\* after the loop: the completion message, and in the app the download
Finish ==
    /\ pc = "loop"
    /\ i > Len(df)
    /\ pc' = "done"
    /\ log' = Append(log, Msg("summary", Len(df), Len(df)))
    /\ download' = (IF variant = "app"
                    THEN [offered |-> TRUE, entries |-> zip_file] ELSE download)
    /\ UNCHANGED <<inputs, columns, df, i, loc, conv, cur, outDir, zip_file, temps, fault>>

DriverNext == ReadAndClean \/ ProcessRecord \/ StartConversion \/ FinishConversion \/ Finish

Next == DriverNext \/ ConverterExits

Spec == Init /\ [][Next]_vars

\* the driver is a sequential program that runs whenever it can; nothing
\* obliges the external converter to end
FairSpec == Spec /\ WF_vars(DriverNext)

\* ------------------------------------------------------------ the claims
Seq2Set(q) == {q[k] : k \in 1..Len(q)}

\* the documents that were saved, are being converted, or sit in the archive
ProducedFiles == outDir \cup Seq2Set(zip_file) \cup Seq2Set(download.entries)
SavedDocs ==
    {g.doc : g \in ProducedFiles} \cup (IF pc = "converting" THEN {cur.doc} ELSE {})

\* what the run has put out: the folder's files, or the archive once offered
Outputs == IF variant = "app" THEN Seq2Set(download.entries) ELSE outDir

IdLess == {j \in 1..Len(table) : table[j].BNU_ID.nan}

\* the fraction lies in tier k (1: >= 80 %, 2: [70, 80), 3: [60, 70), 4: < 60)
InTier(k, f) ==
    CASE k = 1 -> f.num * 100 >= 80 * f.den
      [] k = 2 -> f.num * 100 >= 70 * f.den /\ f.num * 100 < 80 * f.den
      [] k = 3 -> f.num * 100 >= 60 * f.den /\ f.num * 100 < 70 * f.den
      [] OTHER -> f.num * 100 < 60 * f.den

TierLabel == <<"Excellent attendance", "Very good attendance", "Good attendance",
               "Attendance could be better">>

\* C1: whatever the fraction of a processed record (below 0 and above 1
\* included), its category is the label of the one tier its percentage lies
\* in: >= 80 Excellent, [70, 80) Very good, [60, 70) Good, < 60 could be better.
C1_CategoryIsTheTierOfThePercentage ==
    (loc.idx >= 0 /\ loc.attendance.den > 0) =>
        /\ \E k \in 1..4 : loc.attendance_category = TierLabel[k]
        /\ \A k \in 1..4 :
              loc.attendance_category = TierLabel[k] <=> InTier(k, loc.attendance)

\* a record of exactly 80 % has been classified
C1_Witness ==
    /\ loc.idx >= 0
    /\ loc.attendance = Frac(800, 1000)
    /\ loc.attendance_category = "Excellent attendance"

YesRows(doc) == {r \in 1..4 : doc[2][r + 1] = Yes}

\* C2: every document that was saved, is in conversion or is in the archive
\* has exactly one of its four category cells equal to "Yes" and the other
\* three empty, whatever the template held in them.
C2_ExactlyOneCategoryMarked ==
    \A d \in SavedDocs :
        /\ Cardinality(YesRows(d)) = 1
        /\ \A r \in 1..4 : d[2][r + 1] \in {Yes, Empty}

\* a document made from the template with leftovers has been produced
C2_Witness == template = TemplateDirty /\ ProducedFiles # {}

DigitValue(c) == CHOOSE d \in 0..9 : DigitChar[d + 1] = c

RECURSIVE ParseInt(_)
ParseInt(s) == IF Len(s) = 1 THEN DigitValue(s[1])
               ELSE 10 * ParseInt(SubSeq(s, 1, Len(s) - 1)) + DigitValue(s[Len(s)])

\* C3: in every produced document the marked row is the row of the tier of
\* the source row's fraction, and rows 4, 5, 6 of the first table hold the
\* trimmed given name and surname joined by one space, the identifier as a
\* decimal integer, and the campus.
C3_CellsHoldTheRecord ==
    \A g \in ProducedFiles :
        LET r == table[g.src + 1]
        IN  /\ \A k \in 1..4 : (g.doc[2][k + 1] = Yes) <=> InTier(k, r.LIVE)
            /\ g.doc[1][5] = Strip(r.Name.s) \o <<" ">> \o Strip(r.Surname.s)
            /\ \A k \in 1..Len(g.doc[1][6]) : g.doc[1][6][k] \in Seq2Set(DigitChar)
            /\ ParseInt(g.doc[1][6]) = r.BNU_ID.whole
            /\ g.doc[1][7] = r.Campus.s

\* the document of a student whose name came with surrounding spaces and
\* whose fraction is 85 % has been produced
C3_Witness ==
    \E g \in ProducedFiles :
        /\ table[g.src + 1].Name.s = <<" ", "Ann", " ">>
        /\ g.doc[2][2] = Yes

Loaded == i >= 1

\* C4: the cleaned frame holds exactly the source rows that have an
\* identifier, in source order; a row without one is never processed or put
\* out and costs no error; a run that completes has processed as many records
\* as there are source rows minus the rows without identifier.
C4_IdentifierlessRowsAreDropped ==
    /\ (header = AuthorHeader /\ pc \notin {"start", "refused"}) => Loaded
    /\ Loaded =>
          /\ {df[k].idx + 1 : k \in 1..Len(df)} = (1..Len(table)) \ IdLess
          /\ \A a, b \in 1..Len(df) : a < b => df[a].idx < df[b].idx
          /\ Len(df) = Len(table) - Cardinality(IdLess)
    /\ loc.idx + 1 \notin IdLess
    /\ \A g \in ProducedFiles : g.src + 1 \notin IdLess
    /\ pc = "done" => i - 1 = Len(table) - Cardinality(IdLess)

\* a run has completed on a sheet with a row without identifier and a row with one
C4_Witness ==
    /\ pc = "done"
    /\ IdLess # {}
    /\ Len(df) >= 1
    /\ Outputs # {}

\* C5: after a conversion that exits non-zero the driver reports the failure
\* for that record and goes on to the next record; the batch is not aborted.
C5_ConversionFailureIsRecovered ==
    [][(pc = "converting" /\ conv = "exit_nonzero") =>
          /\ pc' = "loop"
          /\ i' = i + 1
          /\ Len(log') = Len(log) + 1
          /\ log'[Len(log')].kind = "conversion_error"]_vars

\* C6: whenever the driver is between two records or has ended, whether after
\* a success, a conversion failure or a fault, no temporary file or directory
\* it created is left.
C6_NoTemporaryIsLeft == pc \in {"loop", "done", "aborted"} => temps = {}

\* C7: the completion message reports a count of successes that equals the
\* number of records for which an output was produced.
C7_SummaryCountsTheOutputs ==
    pc = "done" =>
        \E k \in 1..Len(log) :
            log[k].kind = "summary" /\ log[k].n = Cardinality(Outputs)

\* C8: the batch eventually ends, also when the converter never exits (the
\* wait for it is bounded).
C8_BatchTerminates == <>(pc \in {"done", "aborted", "refused"})

\* C9: the entries of the archive are in source row order: of two entries the
\* one from the earlier source row was written first, and every entry written
\* so far comes from a row before the one being processed.
C9_ArchiveKeepsRowOrder ==
    /\ \A a, b \in 1..Len(zip_file) : a < b => zip_file[a].src < zip_file[b].src
    /\ \A a, b \in 1..Len(download.entries) :
          a < b => download.entries[a].src < download.entries[b].src
    /\ (pc = "converting") => \A a \in 1..Len(zip_file) : zip_file[a].src < cur.src

\* two consecutive entries of the archive come from source rows with an
\* excluded row between them
C9_Witness ==
    \E a \in 1..(Len(zip_file) - 1) : zip_file[a].src + 1 < zip_file[a + 1].src

RequiredFields ==
    {"Name", "Surname", "BNU_ID", "Campus", "LIVE"}
        \cup (IF Grouped THEN {"Group_Ref"} ELSE {})

\* C10: when a required column is absent from the header the run fails: it
\* does not complete, no document is filled, and no file or archive entry
\* is produced.
C10_MissingColumnIsFatal ==
    (\E f \in RequiredFields : header[f] = <<>>) =>
        /\ pc # "done"
        /\ loc.idx = -1
        /\ ProducedFiles = {}
        /\ temps = {}

\* the extension of the chosen output format
Ext == IF output_format = "PDF" THEN ".pdf" ELSE ".docx"

\* the conventional name of the output of source row r
ConventionalPath(r) ==
    (IF Grouped THEN r.Group_Ref.s \o <<"/">> ELSE <<>>)
        \o IntToStr(r.BNU_ID.whole) \o <<"_">> \o Strip(r.Surname.s) \o <<"_">>
        \o Strip(r.Name.s) \o <<"_Attendance_Report", Ext>>

\* C11: every folder file and archive entry is named
\* {student_id}_{surname}_{given_name}_Attendance_Report.<ext>, <ext> being that
\* of the output format, prefixed by {group_label}/ exactly when grouping is
\* active; only while a record is in conversion may the converter's own
\* <temp-basename>.pdf exist, and none is left once the conversion has ended.
C11_OutputsCarryTheConventionalName ==
    \A g \in ProducedFiles :
        \/ g.path = ConventionalPath(table[g.src + 1])
        \/ /\ pc = "converting"
           /\ g.src = cur.src
           /\ g.path = ConvertedPath

\* the direct script has renamed a converted PDF into its group folder
C11_Witness ==
    /\ variant = "direct"
    /\ pc = "loop"
    /\ \E g \in outDir : g.src = cur.src /\ g.path = <<"G1", "/", "7", "_", "Orr", "_", "Cy",
                                                       "_Attendance_Report", ".pdf">>

\* the record at the loop position lacks its campus value, in a sheet with
\* every column and a template of the expected shape
CampusMissingAtLoop ==
    /\ pc = "loop"
    /\ i <= Len(df)
    /\ AllPresent(columns, LoopLabels(variant, group_by))
    /\ ShapeOK(template)
    /\ Get(columns, df[i].row, LCampus).nan

\* C12: a fault of one record other than a conversion failure (here: its campus
\* value is missing) is caught and reported for that record, and the driver
\* goes on to the next record instead of aborting the batch.
C12_RecordFaultIsRecovered ==
    [][CampusMissingAtLoop =>
          /\ pc' # "aborted"
          /\ i' = i + 1
          /\ Len(log') > Len(log)]_vars

\* every label of the sheet is its canonical label up to surrounding whitespace
WhitespaceVariant(h) == \A f \in Fields : Strip(h[f]) = Canonical[f]

\* C13: in every driver a sheet whose labels differ from the canonical ones only
\* by surrounding whitespace is read successfully: no column lookup fails, and
\* once the sheet is loaded every label the loop body uses is found.
C13_WhitespaceVariantHeaderIsRead ==
    WhitespaceVariant(header) =>
        /\ fault # "KeyError"
        /\ Loaded => AllPresent(columns, LoopLabels(variant, group_by))

\* C14: normalizing the column labels is idempotent: normalizing the labels of
\* the sheet a second time changes no label, and the labels a normalizing
\* driver holds after loading are a fixed point of the normalization, so every
\* field keeps the column it was bound to.
C14_NormalizationIsIdempotent ==
    /\ StripColumns(StripColumns(header)) = StripColumns(header)
    /\ (variant # "cli" /\ Loaded) =>
          /\ StripColumns(columns) = columns
          /\ \A f \in Fields :
                HasCol(columns, Canonical[f]) => FieldOf(StripColumns(columns), Canonical[f]) = f

\* a normalizing driver has loaded a sheet whose labels carry two whitespace
\* characters on each side
C14_Witness ==
    /\ variant # "cli"
    /\ Loaded
    /\ header = PaddedHeader(<<" ", "nbsp">>, <<" ", "nbsp">>)
    /\ columns = Canonical

\* the cells the fill writes: rows 4..6 of the first table, rows 1..4 of the second
ValueCell(t, r) == (t = 1 /\ r \in 5..7) \/ (t = 2 /\ r \in 2..5)

\* a document is the template except in the cells the fill writes
TemplateElsewhere(doc) ==
    /\ Len(doc) = Len(template)
    /\ \A t \in 1..Len(template) :
          /\ Len(doc[t]) = Len(template[t])
          /\ \A r \in 1..Len(template[t]) : ~ ValueCell(t, r) => doc[t][r] = template[t][r]

\* C15: every record is filled into its own fresh copy of the template: each
\* produced document is the template except in the cells the fill writes, and
\* a step of the run changes neither the template nor the document of any
\* record produced before.
C15_FillTouchesOnlyItsOwnCopy ==
    /\ [](\A d \in SavedDocs : TemplateElsewhere(d))
    /\ [][/\ template' = template
          /\ \A g \in ProducedFiles :
                \E h \in ProducedFiles' : h.src = g.src /\ h.doc = g.doc]_vars

\* on a template with leftover text, a second record's document was produced
\* while the first record's document is still there
C15_Witness ==
    /\ template = TemplateDirty
    /\ \E g, h \in ProducedFiles : g.src < h.src /\ g.doc # h.doc

\* C16: with a template that lacks a table or a row the fill indexes, the first
\* record the loop takes up ends the whole run with a fault: the loop never
\* goes on to a second record, no converter is started, and no document, no
\* archive entry and no output exists for any record.
C16_MalformedTemplateAbortsTheRun ==
    ~ ShapeOK(template) =>
        /\ ProducedFiles = {}
        /\ conv = "idle"
        /\ pc # "converting"
        /\ i <= 1
        /\ pc = "done" => df = <<>>
        /\ (Loaded /\ pc # "loop" /\ df # <<>>) =>
              (pc = "aborted" /\ fault \in {"IndexError", "TypeError"})

\* the direct script has died with IndexError on the first of two records
C16_Witness ==
    /\ variant = "direct"
    /\ template = TemplateOneTable
    /\ Len(df) >= 2
    /\ pc = "aborted"
    /\ fault = "IndexError"

\* C17: in the app, unless both the spreadsheet and the template are uploaded
\* and, for PDF output, the converter is installed, pressing Generate processes
\* no record and produces no document, no temporary file, no archive and no
\* download; all it shows is a warning (an upload is missing) or an error (the
\* converter is missing).
C17_GenerateNeedsItsInputs ==
    (variant = "app"
       /\ ~ (excel_file /\ template_file /\ (output_format = "PDF" => soffice))) =>
        /\ pc \in {"start", "refused"}
        /\ ~ Loaded
        /\ df = <<>>
        /\ loc.idx = -1
        /\ ProducedFiles = {}
        /\ temps = {}
        /\ ~ download.offered
        /\ pc = "refused" =>
              log = <<Msg(IF excel_file /\ template_file THEN "error" ELSE "warning", 0, 0)>>

\* Generate was pressed with the spreadsheet but no template uploaded
C17_Witness ==
    /\ variant = "app"
    /\ excel_file
    /\ ~ template_file
    /\ table # <<>>
    /\ pc = "refused"

\* the progress lines printed so far, in order
ProgressLines == SelectSeq(log, LAMBDA m : m.kind = "progress")

\* C18: the k-th progress line of a run (on a template of the expected shape
\* and a sheet whose records all have a campus) shows the index k out of the
\* total N, N being the number of records after the rows without identifier
\* were dropped; the index never exceeds the total, wherever the dropped rows
\* stood.
C18_ProgressCountsOneToN ==
    (ShapeOK(template) /\ \A j \in 1..Len(df) : ~ df[j].row.Campus.nan) =>
    \A k \in 1..Len(ProgressLines) :
        /\ ProgressLines[k].total = Len(df)
        /\ ProgressLines[k].n = k
        /\ ProgressLines[k].n <= ProgressLines[k].total

\* the source rows (counted from 1) the direct script has reported as saved
ReportedSaved == {log[k].n : k \in {j \in 1..Len(log) : log[j].kind = "saved"}}

\* C19: between two records and at the end of a run of the direct script, the
\* records reported as saved are exactly the records whose output exists in
\* the output folder; a record whose converter exited with status zero
\* without leaving its file is not among them.
C19_SavedMeansTheOutputExists ==
    (variant = "direct" /\ pc \in {"loop", "done"}) =>
        ReportedSaved = {g.src + 1 : g \in outDir}

DriverVariants == {"cli", "direct", "app"}

\* each driver's loop body gives, for entry e of the cleaned frame, the
\* category, the filled document and the base name the running driver gives
DriversAgreeOn(e) ==
    LET name == Get(columns, e.row, LName)
        surname == Get(columns, e.row, LSurname)
        l == Locals(e)
        doc == FilledDoc(l)
        base == BaseNameOf(variant, l.bnu_id, surname, name)
    IN  \A v \in DriverVariants :
            /\ CategoryOf(v, l.attendance) = l.attendance_category
            /\ FillOf(v, template, StudentNameOf(v, name, surname), l.bnu_id, l.campus.s,
                      CategoryOf(v, l.attendance)) = doc
            /\ BaseNameOf(v, l.bnu_id, surname, name) = base

\* C20: for the record the loop takes up and for the record of every output,
\* the DOCX script, the direct-to-PDF script and the app compute the same
\* category, the same cell texts and the same base output name from the record
\* and the template; the document and the name of every output the running
\* driver produced are those common values.
C20_DriversAgreeOnTheCoreTransformation ==
    (Loaded /\ AllPresent(columns, LoopLabels(variant, group_by))) =>
        /\ (pc = "loop" /\ i <= Len(df)) => DriversAgreeOn(df[i])
        /\ \A g \in ProducedFiles :
              LET e == df[CHOOSE k \in 1..Len(df) : df[k].idx = g.src]
              IN  /\ DriversAgreeOn(e)
                  /\ g.doc = FilledDoc(Locals(e))
                  /\ \/ pc = "converting" /\ g.path = ConvertedPath
                     \/ g.path = TargetPath(e, Ext)

\* the DOCX script has saved, on a template with leftovers, the document of a
\* record in the "Good attendance" tier
C20_Witness ==
    /\ variant = "cli"
    /\ template = TemplateDirty
    /\ \E g \in outDir : g.doc[2][4] = Yes /\ g.doc[2][1] = <<"Tick">>

====
